---- MODULE Spec2Model ----
(***************************************************************************)
(* Model of the fixed-pool allocator of memory_allocator.c.                *)
(*                                                                         *)
(* The arena is modelled as an array of 8-byte words (mem).  A BlockHeader *)
(* is three consecutive words: size, is_free (one byte plus padding) and   *)
(* next.  Pointers are absolute byte addresses, NULL is 0 and the arena    *)
(* starts at Base.  Every handler of the allocator is a function from the  *)
(* allocator state (a record s with the arena words, the statistics, the   *)
(* messages written to stderr and a fault flag) to the state it leaves;    *)
(* the actions at the end of the module apply them to the variables.       *)
(*                                                                         *)
(* size_t is WordBits wide: all size arithmetic is taken modulo SizeMod.   *)
(***************************************************************************)
EXTENDS Integers, Sequences, FiniteSets, TLC

(***************************************************************************)
(* Bounds of the model                                                     *)
(***************************************************************************)
\* width of size_t in bits (scaled down from 64)
WordBits == 16

\* largest value a client stores in a payload word
MaxData == 1

\* allocations and releases counted by the statistics per pool lifetime
MaxAllocs == 3

MaxFrees == 3

(***************************************************************************)
(* Program constants                                                       *)
(***************************************************************************)
\* sizeof(size_t) == sizeof(void *): the word of the arena and the
\* alignment of my_malloc
WordSize == 8

\* mutant of HeaderSize: the header is packed (size_t, bool, pointer with no
\* padding)
HeaderSizePacked == WordSize + 1 + WordSize

\* sizeof(BlockHeader): size_t, bool (padded), pointer
HeaderSize == 24

NULL == 0

SizeMod == 2 ^ WordBits

SIZE_MAX == SizeMod - 1

\* the address malloc() returned for the pool
Base == 32 * WordSize

Strategies == {"FIRST_FIT", "BEST_FIT", "WORST_FIT"}

\* pool sizes handed to allocator_init: smaller than one header, exactly one
\* header, room for three blocks, and a size that is no multiple of 8 with
\* room for three blocks of different sizes
PoolSizes == {16, 24, 96, 108}

\* byte values of fresh and client-written payload words
DataVals == 0 .. MaxData

VARIABLES
  memory_pool,      \* static void *memory_pool
  head,             \* static BlockHeader *head
  pool_size,        \* static size_t pool_size
  current_strategy, \* static AllocationStrategy current_strategy
  stats,            \* static AllocatorStats stats
  mem,              \* the words of the arena, in address order
  fault,            \* the process died on a wild pointer or does not return
  live,             \* client: pointers returned and not yet released
  stale,            \* client: pointers released since the last allocation
  call,             \* the last call made: <<operation, pointer, size>>
  ret,              \* what the last call returned
  err,              \* what the last call wrote to stderr
  demo              \* demo_strategy_comparison: its script, loop index s,
                    \* position, b1 .. b5 and the statistics it printed

vars == <<memory_pool, head, pool_size, current_strategy, stats, mem, fault,
          live, stale, call, ret, err, demo>>

(***************************************************************************)
(* size_t arithmetic                                                       *)
(***************************************************************************)
Add(a, b) == (a + b) % SizeMod

Sub(a, b) == (a - b + 2 * SizeMod) % SizeMod

\* (size + 7) & ~7 on size_t
AlignUp(size) == Add(size, 7) - (Add(size, 7) % WordSize)

(***************************************************************************)
(* Arena access.  m is the word array.                                     *)
(***************************************************************************)
NumWords(m) == Len(m)

ArenaEnd(m) == Base + WordSize * NumWords(m)

\* index (from 1) of the word at address a
Idx(a) == ((a - Base) \div WordSize) + 1

\* a..a+n-1 is word aligned and inside the arena
Readable(m, a, n) ==
  /\ a >= Base
  /\ (a - Base) % WordSize = 0
  /\ a + n <= ArenaEnd(m)

SizeOf(m, b) == m[Idx(b)]

\* bool is the low byte of its word
IsFree(m, b) == (m[Idx(b) + 1] % 256) # 0

NextOf(m, b) == m[Idx(b) + 2]

SetSize(m, b, v) == [m EXCEPT ![Idx(b)] = v]

SetFree(m, b, f) ==
  [m EXCEPT ![Idx(b) + 1] = (@ \div 256) * 256 + (IF f THEN 1 ELSE 0)]

SetNext(m, b, v) == [m EXCEPT ![Idx(b) + 2] = v]

\* fprintf(stderr, ...)
Report(s, msg) == [s EXCEPT !.err = Append(@, msg)]

\* dereference of a pointer that is no address of the arena, or a loop that
\* never ends
Crash(s) == [s EXCEPT !.fault = TRUE]

\* what a search returns when it dereferences a wild pointer
WILD == -1

(***************************************************************************)
(* Strategy Selector                                                       *)
(***************************************************************************)
\* a walk of more steps than this revisits a header: the C loop never ends
Fuel(m) == 2 * NumWords(m) + 2

RECURSIVE first_fit_from(_, _, _, _)
first_fit_from(m, current, size, fuel) ==
  IF current = NULL THEN NULL
  ELSE IF fuel = 0 \/ ~Readable(m, current, HeaderSize) THEN WILD
  ELSE IF IsFree(m, current) /\ SizeOf(m, current) >= size THEN current
  ELSE first_fit_from(m, NextOf(m, current), size, fuel - 1)

\* mutant of find_first_fit: a block of exactly the requested size is passed
\* over
find_first_fit_strict(m, size) == first_fit_from(m, head, size + 1, Fuel(m))

find_first_fit(m, size) == first_fit_from(m, head, size, Fuel(m))

RECURSIVE best_fit_from(_, _, _, _, _, _)
best_fit_from(m, current, size, best, best_size, fuel) ==
  IF current = NULL THEN best
  ELSE IF fuel = 0 \/ ~Readable(m, current, HeaderSize) THEN WILD
  ELSE IF /\ IsFree(m, current)
          /\ SizeOf(m, current) >= size
          /\ SizeOf(m, current) < best_size
       THEN best_fit_from(m, NextOf(m, current), size, current,
                          SizeOf(m, current), fuel - 1)
       ELSE best_fit_from(m, NextOf(m, current), size, best, best_size,
                          fuel - 1)

\* mutant of find_best_fit: the scan stops at the first block that fits
find_best_fit_stops(m, size) == find_first_fit(m, size)

find_best_fit(m, size) == best_fit_from(m, head, size, NULL, SIZE_MAX, Fuel(m))

RECURSIVE worst_fit_from(_, _, _, _, _, _)
worst_fit_from(m, current, size, worst, worst_size, fuel) ==
  IF current = NULL THEN worst
  ELSE IF fuel = 0 \/ ~Readable(m, current, HeaderSize) THEN WILD
  ELSE IF /\ IsFree(m, current)
          /\ SizeOf(m, current) >= size
          /\ SizeOf(m, current) > worst_size
       THEN worst_fit_from(m, NextOf(m, current), size, current,
                           SizeOf(m, current), fuel - 1)
       ELSE worst_fit_from(m, NextOf(m, current), size, worst, worst_size,
                           fuel - 1)

find_worst_fit(m, size) == worst_fit_from(m, head, size, NULL, 0, Fuel(m))

\* mutant of find_free_block: the size of the block is not compared
find_free_block_any(m, size) == find_first_fit(m, 0)

\* mutant of find_free_block: BEST_FIT and WORST_FIT dispatch to each other's
\* search
find_free_block_swapped(m, size) ==
  CASE current_strategy = "FIRST_FIT" -> find_first_fit(m, size)
    [] current_strategy = "BEST_FIT" -> find_worst_fit(m, size)
    [] current_strategy = "WORST_FIT" -> find_best_fit(m, size)
    [] OTHER -> find_first_fit(m, size)

find_free_block(m, size) ==
  CASE current_strategy = "FIRST_FIT" -> find_first_fit(m, size)
    [] current_strategy = "BEST_FIT" -> find_best_fit(m, size)
    [] current_strategy = "WORST_FIT" -> find_worst_fit(m, size)
    [] OTHER -> find_first_fit(m, size)

(***************************************************************************)
(* Splitter                                                                *)
(***************************************************************************)
\* mutant of split_block: the header of the new block is taken from
\* free_memory
split_block_charges_header(s, block, size) ==
  IF SizeOf(s.mem, block) >= Add(Add(size, HeaderSize), 1)
  THEN LET new_block == block + HeaderSize + size
       IN IF ~Readable(s.mem, new_block, HeaderSize) THEN Crash(s)
          ELSE LET m1 == SetSize(s.mem, new_block,
                                 Sub(Sub(SizeOf(s.mem, block), size), HeaderSize))
                   m2 == SetFree(m1, new_block, TRUE)
                   m3 == SetNext(m2, new_block, NextOf(s.mem, block))
                   m4 == SetSize(m3, block, size)
                   m5 == SetNext(m4, block, new_block)
               IN [s EXCEPT !.mem = m5,
                            !.stats = [@ EXCEPT
                               !.num_blocks = Add(@, 1),
                               !.num_free_blocks = Add(@, 1),
                               !.free_memory = Sub(@, HeaderSize)]]
  ELSE s

\* mutant of split_block: a tail of no payload byte is split off too
split_block_no_spare(s, block, size) ==
  IF SizeOf(s.mem, block) >= Add(size, HeaderSize)
  THEN LET new_block == block + HeaderSize + size
       IN IF ~Readable(s.mem, new_block, HeaderSize) THEN Crash(s)
          ELSE LET m1 == SetSize(s.mem, new_block,
                                 Sub(Sub(SizeOf(s.mem, block), size), HeaderSize))
                   m2 == SetFree(m1, new_block, TRUE)
                   m3 == SetNext(m2, new_block, NextOf(s.mem, block))
                   m4 == SetSize(m3, block, size)
                   m5 == SetNext(m4, block, new_block)
               IN [s EXCEPT !.mem = m5,
                            !.stats = [@ EXCEPT !.num_blocks = Add(@, 1),
                                                !.num_free_blocks = Add(@, 1)]]
  ELSE s

split_block(s, block, size) ==
  IF SizeOf(s.mem, block) >= Add(Add(size, HeaderSize), 1)
  THEN LET new_block == block + HeaderSize + size
       IN IF ~Readable(s.mem, new_block, HeaderSize) THEN Crash(s)
          ELSE LET m1 == SetSize(s.mem, new_block,
                                 Sub(Sub(SizeOf(s.mem, block), size), HeaderSize))
                   m2 == SetFree(m1, new_block, TRUE)
                   m3 == SetNext(m2, new_block, NextOf(s.mem, block))
                   m4 == SetSize(m3, block, size)
                   m5 == SetNext(m4, block, new_block)
               IN [s EXCEPT !.mem = m5,
                            !.stats = [@ EXCEPT !.num_blocks = Add(@, 1),
                                                !.num_free_blocks = Add(@, 1)]]
  ELSE s

(***************************************************************************)
(* my_malloc: the state it leaves and the pointer it returns               *)
(***************************************************************************)
\* mutant of my_malloc: a request of 0 bytes is searched for like any other
my_malloc_zero_unchecked(s, size) ==
  IF memory_pool = NULL
  THEN [s |-> Report(s, "Allocator not initialized"), ret |-> NULL]
  ELSE LET asize == AlignUp(size)
           block == find_free_block(s.mem, asize)
       IN IF block = WILD THEN [s |-> Crash(s), ret |-> NULL]
          ELSE IF block = NULL
          THEN [s |-> Report(s, "No suitable block found"), ret |-> NULL]
          ELSE LET s1 == split_block(s, block, asize)
                   m2 == SetFree(s1.mem, block, FALSE)
                   bs == SizeOf(m2, block)
               IN IF s1.fault THEN [s |-> s1, ret |-> NULL]
                  ELSE [s |-> [s1 EXCEPT
                                 !.mem = m2,
                                 !.stats = [@ EXCEPT
                                    !.num_allocations = Add(@, 1),
                                    !.used_memory = Add(@, bs),
                                    !.free_memory = Sub(@, bs),
                                    !.num_free_blocks = Sub(@, 1)]],
                        ret |-> block + HeaderSize]

\* mutant of my_malloc: the allocation is counted before the allocator is
\* known to be initialized
my_malloc_counts_unready(s, size) ==
  IF memory_pool = NULL
  THEN [s |-> Report([s EXCEPT !.stats.num_allocations = Add(@, 1)],
                     "Allocator not initialized"),
        ret |-> NULL]
  ELSE IF size = 0 THEN [s |-> s, ret |-> NULL]
  ELSE LET asize == AlignUp(size)
           block == find_free_block(s.mem, asize)
       IN IF block = WILD THEN [s |-> Crash(s), ret |-> NULL]
          ELSE IF block = NULL
          THEN [s |-> Report(s, "No suitable block found"), ret |-> NULL]
          ELSE LET s1 == split_block(s, block, asize)
                   m2 == SetFree(s1.mem, block, FALSE)
                   bs == SizeOf(m2, block)
               IN IF s1.fault THEN [s |-> s1, ret |-> NULL]
                  ELSE [s |-> [s1 EXCEPT
                                 !.mem = m2,
                                 !.stats = [@ EXCEPT
                                    !.num_allocations = Add(@, 1),
                                    !.used_memory = Add(@, bs),
                                    !.free_memory = Sub(@, bs),
                                    !.num_free_blocks = Sub(@, 1)]],
                        ret |-> block + HeaderSize]

my_malloc(s, size) ==
  IF memory_pool = NULL
  THEN [s |-> Report(s, "Allocator not initialized"), ret |-> NULL]
  ELSE IF size = 0 THEN [s |-> s, ret |-> NULL]
  ELSE LET asize == AlignUp(size)
           block == find_free_block(s.mem, asize)
       IN IF block = WILD THEN [s |-> Crash(s), ret |-> NULL]
          ELSE IF block = NULL
          THEN [s |-> Report(s, "No suitable block found"), ret |-> NULL]
          ELSE LET s1 == split_block(s, block, asize)
                   m2 == SetFree(s1.mem, block, FALSE)
                   bs == SizeOf(m2, block)
               IN IF s1.fault THEN [s |-> s1, ret |-> NULL]
                  ELSE [s |-> [s1 EXCEPT
                                 !.mem = m2,
                                 !.stats = [@ EXCEPT
                                    !.num_allocations = Add(@, 1),
                                    !.used_memory = Add(@, bs),
                                    !.free_memory = Sub(@, bs),
                                    !.num_free_blocks = Sub(@, 1)]],
                        ret |-> block + HeaderSize]

(***************************************************************************)
(* Coalescer                                                               *)
(***************************************************************************)
RECURSIVE coalesce_from(_, _, _)
coalesce_from(s, current, fuel) ==
  IF current = NULL THEN s
  ELSE IF fuel = 0 \/ ~Readable(s.mem, current, HeaderSize) THEN Crash(s)
  ELSE LET nxt == NextOf(s.mem, current)
       IN IF nxt = NULL THEN s
          ELSE IF ~IsFree(s.mem, current) THEN coalesce_from(s, nxt, fuel - 1)
          ELSE IF ~Readable(s.mem, nxt, HeaderSize) THEN Crash(s)
          ELSE IF IsFree(s.mem, nxt)
          THEN LET m1 == SetSize(s.mem, current,
                                 Add(SizeOf(s.mem, current),
                                     Add(HeaderSize, SizeOf(s.mem, nxt))))
                   m2 == SetNext(m1, current, NextOf(s.mem, nxt))
               IN coalesce_from(
                    [s EXCEPT !.mem = m2,
                              !.stats = [@ EXCEPT
                                 !.num_blocks = Sub(@, 1),
                                 !.num_free_blocks = Sub(@, 1)]],
                    current, fuel - 1)
          ELSE coalesce_from(s, nxt, fuel - 1)

\* mutant of coalesce_free_blocks: free neighbours are left unmerged
coalesce_free_blocks_skipped(s) == s

coalesce_free_blocks(s) == coalesce_from(s, head, Fuel(s.mem))

(***************************************************************************)
(* my_free                                                                 *)
(***************************************************************************)
\* mutant of my_free: the allocator is tested before the pointer
my_free_checks_init_first(s, ptr) ==
  IF memory_pool = NULL THEN Report(s, "Allocator not initialized")
  ELSE IF ptr = NULL THEN s
  ELSE LET block == ptr - HeaderSize
       IN IF block < memory_pool \/ block >= memory_pool + pool_size
          THEN Report(s, "Invalid pointer")
          ELSE IF ~Readable(s.mem, block, 2 * WordSize) THEN Crash(s)
          ELSE IF IsFree(s.mem, block) THEN Report(s, "Double free detected")
          ELSE LET m1 == SetFree(s.mem, block, TRUE)
                   bs == SizeOf(m1, block)
               IN coalesce_free_blocks(
                    [s EXCEPT !.mem = m1,
                              !.stats = [@ EXCEPT
                                 !.num_frees = Add(@, 1),
                                 !.used_memory = Sub(@, bs),
                                 !.free_memory = Add(@, bs),
                                 !.num_free_blocks = Add(@, 1)]])

\* mutant of my_free: used_memory is not reduced
my_free_keeps_usage(s, ptr) ==
  IF ptr = NULL THEN s
  ELSE IF memory_pool = NULL THEN Report(s, "Allocator not initialized")
  ELSE LET block == ptr - HeaderSize
       IN IF block < memory_pool \/ block >= memory_pool + pool_size
          THEN Report(s, "Invalid pointer")
          ELSE IF ~Readable(s.mem, block, 2 * WordSize) THEN Crash(s)
          ELSE IF IsFree(s.mem, block) THEN Report(s, "Double free detected")
          ELSE LET m1 == SetFree(s.mem, block, TRUE)
                   bs == SizeOf(m1, block)
               IN coalesce_free_blocks(
                    [s EXCEPT !.mem = m1,
                              !.stats = [@ EXCEPT
                                 !.num_frees = Add(@, 1),
                                 !.free_memory = Add(@, bs),
                                 !.num_free_blocks = Add(@, 1)]])

\* mutant of my_free: a block already marked free is released again
my_free_unchecked(s, ptr) ==
  IF ptr = NULL THEN s
  ELSE IF memory_pool = NULL THEN Report(s, "Allocator not initialized")
  ELSE LET block == ptr - HeaderSize
       IN IF block < memory_pool \/ block >= memory_pool + pool_size
          THEN Report(s, "Invalid pointer")
          ELSE IF ~Readable(s.mem, block, 2 * WordSize) THEN Crash(s)
          ELSE LET m1 == SetFree(s.mem, block, TRUE)
                   bs == SizeOf(m1, block)
               IN coalesce_free_blocks(
                    [s EXCEPT !.mem = m1,
                              !.stats = [@ EXCEPT
                                 !.num_frees = Add(@, 1),
                                 !.used_memory = Sub(@, bs),
                                 !.free_memory = Add(@, bs),
                                 !.num_free_blocks = Add(@, 1)]])

my_free(s, ptr) ==
  IF ptr = NULL THEN s
  ELSE IF memory_pool = NULL THEN Report(s, "Allocator not initialized")
  ELSE LET block == ptr - HeaderSize
       IN IF block < memory_pool \/ block >= memory_pool + pool_size
          THEN Report(s, "Invalid pointer")
          ELSE IF ~Readable(s.mem, block, 2 * WordSize) THEN Crash(s)
          ELSE IF IsFree(s.mem, block) THEN Report(s, "Double free detected")
          ELSE LET m1 == SetFree(s.mem, block, TRUE)
                   bs == SizeOf(m1, block)
               IN coalesce_free_blocks(
                    [s EXCEPT !.mem = m1,
                              !.stats = [@ EXCEPT
                                 !.num_frees = Add(@, 1),
                                 !.used_memory = Sub(@, bs),
                                 !.free_memory = Add(@, bs),
                                 !.num_free_blocks = Add(@, 1)]])

(***************************************************************************)
(* my_realloc                                                              *)
(***************************************************************************)
\* the word dst holds after its low n bytes are overwritten by those of src
\* (little endian; every value of the model fits in two bytes)
CopyBytes(dst, src, n) ==
  IF n >= 2 THEN src ELSE (dst \div 256) * 256 + (src % 256)

\* memcpy(dst, src, n): whole words, then the bytes of a last partial word
memcpy(s, dst, src, n) ==
  LET nw == (n + WordSize - 1) \div WordSize
      m == s.mem
  IN IF n = 0 THEN s
     ELSE IF ~Readable(m, dst, nw * WordSize) \/ ~Readable(m, src, nw * WordSize)
     THEN Crash(s)
     ELSE [s EXCEPT !.mem =
             [i \in 1 .. Len(m) |->
                IF i >= Idx(dst) /\ i < Idx(dst) + nw
                THEN LET j == i - Idx(dst)
                         left == n - j * WordSize
                     IN IF left >= WordSize THEN m[Idx(src) + j]
                        ELSE CopyBytes(m[i], m[Idx(src) + j], left)
                ELSE m[i]]]

\* mutant of my_realloc: a resize to 0 bytes returns null and keeps the block
my_realloc_keeps_on_zero(s, ptr, new_size, g) ==
  IF ptr = NULL THEN my_malloc(s, new_size)
  ELSE IF new_size = 0 THEN [s |-> s, ret |-> NULL]
  ELSE LET block == ptr - HeaderSize
           size_in(m) == IF Readable(m, block, WordSize)
                         THEN SizeOf(m, block) ELSE g
       IN IF size_in(s.mem) >= new_size THEN [s |-> s, ret |-> ptr]
          ELSE LET r == my_malloc(s, new_size)
               IN IF r.ret = NULL THEN r
                  ELSE LET s2 == memcpy(r.s, r.ret, ptr, size_in(r.s.mem))
                       IN IF s2.fault THEN [s |-> s2, ret |-> NULL]
                          ELSE [s |-> my_free(s2, ptr), ret |-> r.ret]

\* mutant of my_realloc: the old block is released before the new one is
\* allocated
my_realloc_free_first(s, ptr, new_size, g) ==
  IF ptr = NULL THEN my_malloc(s, new_size)
  ELSE IF new_size = 0 THEN [s |-> my_free(s, ptr), ret |-> NULL]
  ELSE LET block == ptr - HeaderSize
           size_in(m) == IF Readable(m, block, WordSize)
                         THEN SizeOf(m, block) ELSE g
       IN IF size_in(s.mem) >= new_size THEN [s |-> s, ret |-> ptr]
          ELSE LET s1 == my_free(s, ptr)
                   r == my_malloc(s1, new_size)
               IN IF r.ret = NULL THEN r
                  ELSE [s |-> memcpy(r.s, r.ret, ptr, size_in(s.mem)),
                        ret |-> r.ret]

\* mutant of my_realloc: a block of exactly new_size bytes is moved too
my_realloc_strict(s, ptr, new_size, g) ==
  IF ptr = NULL THEN my_malloc(s, new_size)
  ELSE IF new_size = 0 THEN [s |-> my_free(s, ptr), ret |-> NULL]
  ELSE LET block == ptr - HeaderSize
           size_in(m) == IF Readable(m, block, WordSize)
                         THEN SizeOf(m, block) ELSE g
       IN IF size_in(s.mem) > new_size THEN [s |-> s, ret |-> ptr]
          ELSE LET r == my_malloc(s, new_size)
               IN IF r.ret = NULL THEN r
                  ELSE LET s2 == memcpy(r.s, r.ret, ptr, size_in(r.s.mem))
                       IN IF s2.fault THEN [s |-> s2, ret |-> NULL]
                          ELSE [s |-> my_free(s2, ptr), ret |-> r.ret]

\* g is what block->size reads when the header is no memory of the arena
my_realloc(s, ptr, new_size, g) ==
  IF ptr = NULL THEN my_malloc(s, new_size)
  ELSE IF new_size = 0 THEN [s |-> my_free(s, ptr), ret |-> NULL]
  ELSE LET block == ptr - HeaderSize
           size_in(m) == IF Readable(m, block, WordSize)
                         THEN SizeOf(m, block) ELSE g
       IN IF size_in(s.mem) >= new_size THEN [s |-> s, ret |-> ptr]
          ELSE LET r == my_malloc(s, new_size)
               IN IF r.ret = NULL THEN r
                  ELSE LET s2 == memcpy(r.s, r.ret, ptr, size_in(r.s.mem))
                       IN IF s2.fault THEN [s |-> s2, ret |-> NULL]
                          ELSE [s |-> my_free(s2, ptr), ret |-> r.ret]

(***************************************************************************)
(* Lifecycle                                                               *)
(***************************************************************************)
\* a double of the program that is a ratio of two size_t values is kept as
\* <<numerator, denominator>> (the factor 100.0 left out); this is 0.0
ZeroFrag == <<0, 1>>

ZeroStats ==
  [total_memory |-> 0, used_memory |-> 0, free_memory |-> 0,
   num_allocations |-> 0, num_frees |-> 0, num_blocks |-> 0,
   num_free_blocks |-> 0, fragmentation |-> ZeroFrag]

\* mutant of InitialArena: the next link of the first header is left as the
\* fresh memory holds it
InitialArena_next_unset(size, fill) ==
  LET m0 == [i \in 1 .. ((size + WordSize - 1) \div WordSize) |-> fill]
      m1 == SetSize(m0, Base, size - HeaderSize)
  IN SetFree(m1, Base, TRUE)

\* the arena right after allocator_init(size, _): fresh words holding fill,
\* then the first header
InitialArena(size, fill) ==
  LET m0 == [i \in 1 .. ((size + WordSize - 1) \div WordSize) |-> fill]
      m1 == SetSize(m0, Base, size - HeaderSize)
      m2 == SetFree(m1, Base, TRUE)
  IN SetNext(m2, Base, NULL)

InitialStats(size) ==
  [total_memory |-> size, free_memory |-> size - HeaderSize, used_memory |-> 0,
   num_blocks |-> 1, num_free_blocks |-> 1, num_allocations |-> 0,
   num_frees |-> 0, fragmentation |-> ZeroFrag]

(***************************************************************************)
(* Statistics                                                              *)
(***************************************************************************)
RECURSIVE largest_free_from(_, _, _, _)
largest_free_from(m, current, largest_free, fuel) ==
  IF current = NULL THEN largest_free
  ELSE IF fuel = 0 \/ ~Readable(m, current, HeaderSize) THEN WILD
  ELSE IF IsFree(m, current) /\ SizeOf(m, current) > largest_free
       THEN largest_free_from(m, NextOf(m, current), SizeOf(m, current),
                              fuel - 1)
       ELSE largest_free_from(m, NextOf(m, current), largest_free, fuel - 1)

\* the ratio calculate_fragmentation returns (<<WILD, WILD>> when the walk
\* of the list dereferences a wild pointer)
calculate_fragmentation(s) ==
  IF s.stats.free_memory = 0 THEN ZeroFrag
  ELSE LET largest_free == largest_free_from(s.mem, head, 0, Fuel(s.mem))
       IN IF largest_free = WILD THEN <<WILD, WILD>>
          ELSE IF largest_free = 0 THEN ZeroFrag
          ELSE IF Sub(s.stats.free_memory, largest_free) = 0 THEN ZeroFrag
          ELSE <<Sub(s.stats.free_memory, largest_free), s.stats.free_memory>>

\* out_stats is the address of the caller's AllocatorStats (the copy it
\* receives is stats as the call leaves it)
get_allocator_stats(s, out_stats) ==
  IF out_stats = NULL THEN s
  ELSE IF calculate_fragmentation(s) = <<WILD, WILD>> THEN Crash(s)
  ELSE [s EXCEPT !.stats.fragmentation = calculate_fragmentation(s)]

\* the state record the handlers work on
Cur == [mem |-> mem, stats |-> stats, fault |-> FALSE, err |-> <<>>]

\* no call is outstanding
Idle == <<"none", NULL, 0>>

\* demo_strategy_comparison has not been entered
NotRunning ==
  [script |-> [pool |-> 0, sizes |-> <<>>, frees |-> <<>>, last |-> 0,
               tidy |-> <<>>],
   s |-> 0, pc |-> 0, b |-> <<>>, out |-> <<>>]

Init ==
  /\ memory_pool = NULL
  /\ head = NULL
  /\ pool_size = 0
  /\ current_strategy = "FIRST_FIT"
  /\ stats = ZeroStats
  /\ mem = <<>>
  /\ fault = FALSE
  /\ live = {}
  /\ stale = {}
  /\ call = Idle
  /\ ret = NULL
  /\ err = <<>>
  /\ demo = NotRunning

\* mutant of allocator_init: the strategy is recorded before the allocator is
\* known to be uninitialized
allocator_init_records_first(size, strategy, sysok, fill) ==
  /\ ~fault
  /\ call = Idle
  /\ call' = <<"allocator_init", NULL, size>>
  /\ current_strategy' = strategy
  /\ IF memory_pool # NULL
     THEN /\ err' = <<"Allocator already initialized">>
          /\ ret' = 0
          /\ UNCHANGED <<memory_pool, head, pool_size, stats, mem, fault, live,
                         stale>>
     ELSE IF size < HeaderSize
     THEN /\ err' = <<"Pool size too small">>
          /\ ret' = 0
          /\ UNCHANGED <<memory_pool, head, pool_size, stats, mem, fault, live,
                         stale>>
     ELSE IF ~sysok
     THEN /\ err' = <<"Failed to allocate memory pool">>
          /\ ret' = 0
          /\ UNCHANGED <<memory_pool, head, pool_size, stats, mem, fault, live,
                         stale>>
     ELSE /\ memory_pool' = Base
          /\ pool_size' = size
          /\ head' = Base
          /\ mem' = InitialArena(size, fill)
          /\ stats' = InitialStats(size)
          /\ err' = <<>>
          /\ ret' = 1
          /\ live' = {}
          /\ stale' = {}
          /\ UNCHANGED fault

\* sysok: whether malloc(size) of the C library succeeds; fill: what the
\* fresh memory holds
allocator_init(size, strategy, sysok, fill) ==
  /\ ~fault
  /\ call = Idle
  /\ call' = <<"allocator_init", NULL, size>>
  /\ IF memory_pool # NULL
     THEN /\ err' = <<"Allocator already initialized">>
          /\ ret' = 0
          /\ UNCHANGED <<memory_pool, head, pool_size, current_strategy,
                         stats, mem, fault, live, stale>>
     ELSE IF size < HeaderSize
     THEN /\ err' = <<"Pool size too small">>
          /\ ret' = 0
          /\ UNCHANGED <<memory_pool, head, pool_size, current_strategy,
                         stats, mem, fault, live, stale>>
     ELSE IF ~sysok
     THEN /\ err' = <<"Failed to allocate memory pool">>
          /\ ret' = 0
          /\ UNCHANGED <<memory_pool, head, pool_size, current_strategy,
                         stats, mem, fault, live, stale>>
     ELSE /\ memory_pool' = Base
          /\ pool_size' = size
          /\ current_strategy' = strategy
          /\ head' = Base
          /\ mem' = InitialArena(size, fill)
          /\ stats' = InitialStats(size)
          /\ err' = <<>>
          /\ ret' = 1
          /\ live' = {}
          /\ stale' = {}
          /\ UNCHANGED fault

\* mutant of allocator_cleanup: the statistics are not cleared
allocator_cleanup_keeps_stats ==
  /\ ~fault
  /\ call = Idle
  /\ call' = <<"allocator_cleanup", NULL, 0>>
  /\ ret' = NULL
  /\ err' = <<>>
  /\ IF memory_pool # NULL
     THEN /\ memory_pool' = NULL
          /\ head' = NULL
          /\ pool_size' = 0
          /\ mem' = <<>>
          /\ live' = {}
          /\ stale' = {}
          /\ UNCHANGED <<current_strategy, fault, stats>>
     ELSE UNCHANGED <<memory_pool, head, pool_size, current_strategy, stats,
                      mem, fault, live, stale>>

allocator_cleanup ==
  /\ ~fault
  /\ call = Idle
  /\ call' = <<"allocator_cleanup", NULL, 0>>
  /\ ret' = NULL
  /\ err' = <<>>
  /\ IF memory_pool # NULL
     THEN /\ memory_pool' = NULL
          /\ head' = NULL
          /\ pool_size' = 0
          /\ stats' = ZeroStats
          /\ mem' = <<>>
          /\ live' = {}
          /\ stale' = {}
          /\ UNCHANGED <<current_strategy, fault>>
     ELSE UNCHANGED <<memory_pool, head, pool_size, current_strategy, stats,
                      mem, fault, live, stale>>

(***************************************************************************)
(* The client: what it passes to the allocator                             *)
(***************************************************************************)
\* request sizes: zero, small, the whole pool of 96, more than the pool, and
\* the largest size of size_t
ReqSizes == {0, 1, 16, 72, 192, SIZE_MAX}

\* pointers the allocator never handed out: below the arena, at its end, and
\* one header past its end
OutsidePtrs ==
  IF memory_pool = NULL THEN {Base + HeaderSize}
  ELSE {Base - WordSize, Base + AlignUp(pool_size),
        Base + AlignUp(pool_size) + HeaderSize}

FreePtrs == {NULL} \cup live \cup stale \cup OutsidePtrs

ReallocPtrs == {NULL} \cup live \cup {Base - WordSize}

\* what a read of block->size outside the arena may yield
Garbage(ptr) ==
  IF Readable(mem, ptr - HeaderSize, WordSize) \/ ptr = NULL THEN {0}
  ELSE {0, SIZE_MAX}

\* allocator_init reaches malloc() of the C library only when it has
\* passed its own checks: only then do malloc's outcome and the content of
\* the fresh memory matter
SysOutcomes(size) ==
  IF memory_pool = NULL /\ size >= HeaderSize THEN BOOLEAN ELSE {TRUE}

Fills(size) ==
  IF memory_pool = NULL /\ size >= HeaderSize THEN DataVals ELSE {0}

Apply(s) ==
  /\ mem' = s.mem
  /\ stats' = s.stats
  /\ fault' = s.fault
  /\ err' = s.err
  /\ UNCHANGED <<memory_pool, head, pool_size, current_strategy>>

(***************************************************************************)
(* Actions: one per public operation                                       *)
(***************************************************************************)
Malloc(size) ==
  /\ ~fault
  /\ call = Idle
  /\ LET r == my_malloc(Cur, size)
     IN /\ r.s.stats.num_allocations <= MaxAllocs
        /\ Apply(r.s)
        /\ ret' = r.ret
        /\ live' = IF r.ret # NULL THEN live \cup {r.ret} ELSE live
        /\ stale' = IF r.ret # NULL THEN {} ELSE stale
  /\ call' = <<"my_malloc", NULL, size>>

Free(ptr) ==
  /\ ~fault
  /\ call = Idle
  /\ my_free(Cur, ptr).stats.num_frees <= MaxFrees
  /\ Apply(my_free(Cur, ptr))
  /\ ret' = NULL
  /\ live' = live \ {ptr}
  /\ stale' = IF ptr \in live THEN stale \cup {ptr} ELSE stale
  /\ call' = <<"my_free", ptr, 0>>

Realloc(ptr, new_size, g) ==
  /\ ~fault
  /\ call = Idle
  /\ LET r == my_realloc(Cur, ptr, new_size, g)
     IN /\ r.s.stats.num_allocations <= MaxAllocs
        /\ r.s.stats.num_frees <= MaxFrees
        /\ Apply(r.s)
        /\ ret' = r.ret
        /\ IF ptr # NULL /\ new_size = 0
           THEN /\ live' = live \ {ptr}
                /\ stale' = IF ptr \in live THEN stale \cup {ptr} ELSE stale
           ELSE IF r.ret # NULL /\ r.ret # ptr
           THEN /\ live' = (live \ {ptr}) \cup {r.ret}
                /\ stale' = IF ptr \in live THEN {ptr} ELSE {}
           ELSE UNCHANGED <<live, stale>>
  /\ call' = <<"my_realloc", ptr, new_size>>

\* the address of the AllocatorStats the client passes
ClientStats == Base - 16 * WordSize

GetStats(out_stats) ==
  /\ ~fault
  /\ call = Idle
  /\ Apply(get_allocator_stats(Cur, out_stats))
  /\ ret' = NULL
  /\ call' = <<"get_allocator_stats", out_stats, 0>>
  /\ UNCHANGED <<live, stale>>

Coalesce ==
  /\ ~fault
  /\ call = Idle
  /\ memory_pool # NULL
  /\ Apply(coalesce_free_blocks(Cur))
  /\ ret' = NULL
  /\ call' = <<"coalesce_free_blocks", NULL, 0>>
  /\ UNCHANGED <<live, stale>>

\* the word the client stores at index j of a block it fills with pattern v
Pattern(v, j) == v + j

\* the client fills the payload of one of its blocks with a pattern
Write(ptr, v) ==
  /\ ~fault
  /\ call = Idle
  /\ ptr \in live
  /\ Readable(mem, ptr - HeaderSize, HeaderSize)
  /\ LET nw == SizeOf(mem, ptr - HeaderSize) \div WordSize
     IN /\ nw > 0
        /\ Readable(mem, ptr, nw * WordSize)
        /\ mem' = [i \in 1 .. Len(mem) |->
                     IF i >= Idx(ptr) /\ i < Idx(ptr) + nw
                     THEN Pattern(v, i - Idx(ptr)) ELSE mem[i]]
  /\ mem' # mem
  /\ UNCHANGED <<memory_pool, head, pool_size, current_strategy, stats, fault,
                 live, stale, call, ret, err>>

\* the client has seen the outcome of its call (a call that died never
\* returns)
Return ==
  /\ ~fault
  /\ call # Idle
  /\ call' = Idle
  /\ ret' = NULL
  /\ err' = <<>>
  /\ UNCHANGED <<memory_pool, head, pool_size, current_strategy, stats, mem,
                 fault, live, stale>>

Next ==
  \/ /\ \E size \in PoolSizes, strategy \in Strategies :
           \E sysok \in SysOutcomes(size), fill \in Fills(size) :
              allocator_init(size, strategy, sysok, fill)
     /\ UNCHANGED demo
  \/ allocator_cleanup /\ UNCHANGED demo
  \/ (\E size \in ReqSizes : Malloc(size)) /\ UNCHANGED demo
  \/ (\E ptr \in FreePtrs : Free(ptr)) /\ UNCHANGED demo
  \/ /\ \E ptr \in ReallocPtrs, new_size \in ReqSizes :
           \E g \in Garbage(ptr) : Realloc(ptr, new_size, g)
     /\ UNCHANGED demo
  \/ Coalesce /\ UNCHANGED demo
  \/ (\E ptr \in live, v \in DataVals : Write(ptr, v)) /\ UNCHANGED demo
  \/ Return /\ UNCHANGED demo

\* The allocator with a client that allocates, stores, resizes and releases.
\* get_allocator_stats is left to SpecStats: it writes stats.fragmentation
\* alone, which no other operation reads.
Spec == Init /\ [][Next]_vars

\* The allocator with a client that also reads the statistics (and stores
\* nothing in its blocks: no handler reads a payload but memcpy)
NextStats ==
  \/ /\ \E size \in PoolSizes, strategy \in Strategies :
           \E sysok \in SysOutcomes(size), fill \in Fills(size) :
              allocator_init(size, strategy, sysok, fill)
     /\ UNCHANGED demo
  \/ allocator_cleanup /\ UNCHANGED demo
  \/ (\E size \in ReqSizes : Malloc(size)) /\ UNCHANGED demo
  \/ (\E ptr \in FreePtrs : Free(ptr)) /\ UNCHANGED demo
  \/ /\ \E ptr \in ReallocPtrs, new_size \in ReqSizes :
           \E g \in Garbage(ptr) : Realloc(ptr, new_size, g)
     /\ UNCHANGED demo
  \/ Coalesce /\ UNCHANGED demo
  \/ (\E out_stats \in {NULL, ClientStats} : GetStats(out_stats))
        /\ UNCHANGED demo
  \/ Return /\ UNCHANGED demo

SpecStats == Init /\ [][NextStats]_vars

\* pointers a client may pass to my_free and my_realloc: NULL and what the
\* allocator handed out and the client has not released
ValidPtrs == {NULL} \cup live

\* The allocator with a client that makes valid calls only: requests of any
\* size, releases and resizes of pointers it holds.
NextValid ==
  \/ /\ \E size \in PoolSizes, strategy \in Strategies :
           \E sysok \in SysOutcomes(size), fill \in Fills(size) :
              allocator_init(size, strategy, sysok, fill)
     /\ UNCHANGED demo
  \/ allocator_cleanup /\ UNCHANGED demo
  \/ (\E size \in ReqSizes : Malloc(size)) /\ UNCHANGED demo
  \/ (\E ptr \in ValidPtrs : Free(ptr)) /\ UNCHANGED demo
  \/ /\ \E ptr \in ValidPtrs, new_size \in ReqSizes :
           \E g \in Garbage(ptr) : Realloc(ptr, new_size, g)
     /\ UNCHANGED demo
  \/ Coalesce /\ UNCHANGED demo
  \/ (\E ptr \in live, v \in DataVals : Write(ptr, v)) /\ UNCHANGED demo
  \/ Return /\ UNCHANGED demo

SpecValid == Init /\ [][NextValid]_vars

(***************************************************************************)
(* demo_strategy_comparison: one script, run under each strategy in turn   *)
(***************************************************************************)
POOL_SIZE == 10240

TEST_POOL_SIZE == 4096

\* AllocationStrategy strategies[] of the demo
strategies == <<"FIRST_FIT", "BEST_FIT", "WORST_FIT">>

\* the non-empty orders in which blocks 1 .. 3 can be released
Orders ==
  {o \in UNION {[1 .. n -> 1 .. 3] : n \in 1 .. 3} :
     \A i, j \in DOMAIN o : i # j => o[i] # o[j]}

\* The script of main.c: b1 .. b4 are allocated, b2 and b4 released, b5
\* allocated, the statistics read, and b1, b3, b5 released.
DemoScript ==
  [pool |-> POOL_SIZE, sizes |-> <<100, 200, 50, 150>>, frees |-> <<2, 4>>,
   last |-> 80, tidy |-> <<1, 3, 5>>]

\* The same script on the pool of the tests, with three blocks and any
\* release order, ending when the statistics are read.
CraftedScripts ==
  {[pool |-> TEST_POOL_SIZE, sizes |-> <<100, 200, 50>>, frees |-> o,
    last |-> 80, tidy |-> <<>>] : o \in Orders}

Scripts == {DemoScript} \cup CraftedScripts

\* the calls of one iteration of the loop, in order
Program(sc) ==
  <<[op |-> "cleanup", arg |-> 0], [op |-> "init", arg |-> sc.pool]>>
  \o [i \in 1 .. Len(sc.sizes) |-> [op |-> "malloc", arg |-> sc.sizes[i]]]
  \o [i \in 1 .. Len(sc.frees) |-> [op |-> "free", arg |-> sc.frees[i]]]
  \o <<[op |-> "malloc", arg |-> sc.last], [op |-> "stats", arg |-> 0]>>
  \o [i \in 1 .. Len(sc.tidy) |-> [op |-> "free", arg |-> sc.tidy[i]]]

\* the call the demo is about to make
Instr ==
  IF demo.s \in 1 .. 3 /\ demo.pc \in 1 .. Len(Program(demo.script))
  THEN Program(demo.script)[demo.pc]
  ELSE [op |-> "none", arg |-> 0]

DemoEnter(sc) ==
  /\ ~fault
  /\ call = Idle
  /\ demo.s = 0
  /\ demo' = [script |-> sc, s |-> 1, pc |-> 1, b |-> <<>>, out |-> <<>>]
  /\ UNCHANGED <<memory_pool, head, pool_size, current_strategy, stats, mem,
                 fault, live, stale, call, ret, err>>

DemoCleanup ==
  /\ Instr.op = "cleanup"
  /\ allocator_cleanup
  /\ demo' = [demo EXCEPT !.pc = @ + 1]

\* the demo does not look at what allocator_init returns
DemoInit(sysok, fill) ==
  /\ Instr.op = "init"
  /\ allocator_init(Instr.arg, strategies[demo.s], sysok, fill)
  /\ demo' = [demo EXCEPT !.pc = @ + 1]

DemoMalloc ==
  /\ Instr.op = "malloc"
  /\ ~fault
  /\ call = Idle
  /\ LET r == my_malloc(Cur, Instr.arg)
     IN /\ Apply(r.s)
        /\ ret' = r.ret
        /\ live' = IF r.ret # NULL THEN live \cup {r.ret} ELSE live
        /\ stale' = IF r.ret # NULL THEN {} ELSE stale
        /\ demo' = [demo EXCEPT !.pc = @ + 1, !.b = Append(@, r.ret)]
  /\ call' = <<"my_malloc", NULL, Instr.arg>>

DemoFree ==
  /\ Instr.op = "free"
  /\ ~fault
  /\ call = Idle
  /\ LET ptr == demo.b[Instr.arg]
     IN /\ Apply(my_free(Cur, ptr))
        /\ live' = live \ {ptr}
        /\ stale' = IF ptr \in live THEN stale \cup {ptr} ELSE stale
        /\ call' = <<"my_free", ptr, 0>>
  /\ ret' = NULL
  /\ demo' = [demo EXCEPT !.pc = @ + 1]

\* the demo prints what get_allocator_stats copied out
DemoStats ==
  /\ Instr.op = "stats"
  /\ GetStats(ClientStats)
  /\ demo' = [demo EXCEPT !.pc = @ + 1,
                          !.out = Append(@, get_allocator_stats(
                                               Cur, ClientStats).stats)]

\* for (s = 0; s < 3; s++)
DemoLoop ==
  /\ ~fault
  /\ call = Idle
  /\ demo.s \in 1 .. 3
  /\ demo.pc > Len(Program(demo.script))
  /\ demo' = [demo EXCEPT !.s = @ + 1, !.pc = 1, !.b = <<>>]
  /\ UNCHANGED <<memory_pool, head, pool_size, current_strategy, stats, mem,
                 fault, live, stale, call, ret, err>>

NextDemo ==
  \/ \E sc \in Scripts : DemoEnter(sc)
  \/ DemoCleanup
  \/ \E sysok \in SysOutcomes(Instr.arg), fill \in Fills(Instr.arg) :
        DemoInit(sysok, fill)
  \/ DemoMalloc
  \/ DemoFree
  \/ DemoStats
  \/ DemoLoop
  \/ Return /\ UNCHANGED demo

\* The allocator driven by demo_strategy_comparison alone.
SpecDemo == Init /\ [][NextDemo]_vars

(***************************************************************************)
(* Loop counts: how often the body of a loop runs (WILD: the loop leaves   *)
(* the arena or does not end)                                              *)
(***************************************************************************)
Inc(n) == IF n = WILD THEN WILD ELSE n + 1

\* the while loop of coalesce_free_blocks
RECURSIVE coalesce_iterations(_, _, _)
coalesce_iterations(m, current, fuel) ==
  IF current = NULL THEN 0
  ELSE IF fuel = 0 \/ ~Readable(m, current, HeaderSize) THEN WILD
  ELSE LET nxt == NextOf(m, current)
       IN IF nxt = NULL THEN 0
          ELSE IF ~IsFree(m, current)
          THEN Inc(coalesce_iterations(m, nxt, fuel - 1))
          ELSE IF ~Readable(m, nxt, HeaderSize) THEN WILD
          ELSE IF IsFree(m, nxt)
          THEN LET m1 == SetSize(m, current,
                                 Add(SizeOf(m, current),
                                     Add(HeaderSize, SizeOf(m, nxt))))
                   m2 == SetNext(m1, current, NextOf(m, nxt))
               IN Inc(coalesce_iterations(m2, current, fuel - 1))
          ELSE Inc(coalesce_iterations(m, nxt, fuel - 1))

\* the while loop of find_best_fit and find_worst_fit, which runs to the end
\* of the list (the loop of find_first_fit runs no longer)
RECURSIVE search_iterations(_, _, _)
search_iterations(m, current, fuel) ==
  IF current = NULL THEN 0
  ELSE IF fuel = 0 \/ ~Readable(m, current, HeaderSize) THEN WILD
  ELSE Inc(search_iterations(m, NextOf(m, current), fuel - 1))

(***************************************************************************)
(* The ledger as the specification sees it: the list read from head        *)
(***************************************************************************)
\* the headers reached from b by next links, in list order
RECURSIVE ChainFrom(_, _, _)
ChainFrom(m, b, fuel) ==
  IF b = NULL \/ fuel = 0 \/ ~Readable(m, b, HeaderSize) THEN <<>>
  ELSE <<b>> \o ChainFrom(m, NextOf(m, b), fuel - 1)

Chain(m) == ChainFrom(m, head, Fuel(m))

InChain(m, b) == \E i \in 1 .. Len(Chain(m)) : Chain(m)[i] = b

\* ptr is the payload pointer of a block of the list that is marked allocated
LiveAllocated(m, ptr) ==
  /\ ptr # NULL
  /\ InChain(m, ptr - HeaderSize)
  /\ ~IsFree(m, ptr - HeaderSize)

RECURSIVE SumSeq(_)
SumSeq(q) == IF q = <<>> THEN 0 ELSE Head(q) + SumSeq(Tail(q))

\* the list from head spans the arena: first header at offset 0, every next
\* header right behind its predecessor's payload, last block ending at
\* pool_size
Tiles(m) ==
  LET c == Chain(m)
  IN /\ Len(c) >= 1
     /\ c[1] = memory_pool
     /\ \A i \in 1 .. Len(c) :
          LET after == c[i] + HeaderSize + SizeOf(m, c[i])
          IN IF i < Len(c)
             THEN NextOf(m, c[i]) = after /\ c[i + 1] = after
             ELSE NextOf(m, c[i]) = NULL /\ after = memory_pool + pool_size
     /\ SumSeq([i \in 1 .. Len(c) |-> HeaderSize + SizeOf(m, c[i])]) = pool_size

\* the links from head end in NULL: the list is a list of headers of the arena
RECURSIVE EndsInNull(_, _, _)
EndsInNull(m, b, fuel) ==
  IF b = NULL THEN TRUE
  ELSE IF fuel = 0 \/ ~Readable(m, b, HeaderSize) THEN FALSE
  ELSE EndsInNull(m, NextOf(m, b), fuel - 1)

ProperList(m) == EndsInNull(m, head, Fuel(m))

\* the word at address a (-1 when a is no word of the arena)
Word(m, a) == IF Readable(m, a, WordSize) THEN m[Idx(a)] ELSE -1

\* no free block of the list can take a request of n bytes
NoFit(m, n) ==
  \A i \in 1 .. Len(Chain(m)) :
     ~(IsFree(m, Chain(m)[i]) /\ SizeOf(m, Chain(m)[i]) >= n)

\* no two neighbours of the list are both free
NoAdjacentFree(m) ==
  \A i \in 1 .. Len(Chain(m)) - 1 :
     ~(IsFree(m, Chain(m)[i]) /\ IsFree(m, Chain(m)[i + 1]))

\* the list as a sequence of <<size, is_free>>
Ledger(m) ==
  [i \in 1 .. Len(Chain(m)) |->
     <<SizeOf(m, Chain(m)[i]), IsFree(m, Chain(m)[i])>>]

\* a ledger with every maximal run of free neighbours merged into one free
\* block: the run's sizes plus one header width per absorbed block
RECURSIVE MergeRuns(_)
MergeRuns(q) ==
  IF Len(q) < 2 THEN q
  ELSE IF q[1][2] /\ q[2][2]
  THEN MergeRuns(<<<<Add(q[1][1], Add(HeaderSize, q[2][1])), TRUE>>>>
                 \o SubSeq(q, 3, Len(q)))
  ELSE <<q[1]>> \o MergeRuns(Tail(q))

\* the step is a call of op (the handler runs to its end within the step)
Calls(op) == call = Idle /\ call'[1] = op

(***************************************************************************)
(* Claims                                                                  *)
(***************************************************************************)
\* C1: in every state after a successful allocator_init, whatever calls
\* followed (successful or failed), the block list from head tiles the
\* arena in address order and the header widths plus sizes sum to pool_size.
C1_ListTilesArena == memory_pool # NULL => Tiles(mem)


\* C2: my_free(p), for p the payload pointer of a block of the list that is
\* marked allocated, marks the block free, takes its size from used_memory
\* and adds it to free_memory, adds one to num_frees, leaves num_allocations
\* alone and then coalesces: the list it leaves is the list with that block
\* marked free and every run of free neighbours merged.
C2_FreeReleasesBlock ==
  [][(Calls("my_free") /\ memory_pool # NULL /\ LiveAllocated(mem, call'[2]))
     => LET b == call'[2] - HeaderSize
            k == SizeOf(mem, b)
        IN /\ IsFree(mem', b)
           /\ stats'.used_memory = Sub(stats.used_memory, k)
           /\ stats'.free_memory = Add(stats.free_memory, k)
           /\ stats'.num_frees = Add(stats.num_frees, 1)
           /\ stats'.num_allocations = stats.num_allocations
           /\ ~fault' => Ledger(mem') = MergeRuns(Ledger(SetFree(mem, b, TRUE)))
    ]_vars

\* C2 witness: a release of a live pointer has run: the pointer is released,
\* its header is marked free, nothing was reported
C2_Witness ==
  /\ call[1] = "my_free"
  /\ call[2] \in stale
  /\ err = <<>>
  /\ ~fault
  /\ stats.num_frees = 1
  /\ stats.used_memory > 0
  /\ IsFree(mem, call[2] - HeaderSize)


\* C3: once my_free or coalesce_free_blocks has returned, no two neighbours
\* of the list are both free; the call merged every maximal run of free
\* neighbours into one block of the run's sizes plus one header width per
\* absorbed block (and dropped one from num_blocks per absorbed block); so
\* no state between calls holds two free neighbours.
C3_FreeRunsMerged ==
  /\ [](memory_pool # NULL /\ ~fault => NoAdjacentFree(mem))
  /\ [][((Calls("my_free") \/ Calls("coalesce_free_blocks"))
         /\ memory_pool # NULL /\ ~fault')
        => LET before == IF Calls("my_free") /\ LiveAllocated(mem, call'[2])
                         THEN SetFree(mem, call'[2] - HeaderSize, TRUE)
                         ELSE mem
           IN /\ Ledger(mem') = MergeRuns(Ledger(before))
              /\ stats'.num_blocks =
                   Sub(stats.num_blocks, Len(Ledger(before)) - Len(Ledger(mem')))
       ]_vars

\* C4: a second my_free(p) right after my_free(p), with no allocation in
\* between, changes nothing: statistics and arena (hence the list) stay as
\* they were, whether or not p's block was absorbed by its predecessor.
C4_DoubleFreeChangesNothing ==
  [][(Calls("my_free") /\ call'[2] \in stale)
     => (mem' = mem /\ stats' = stats /\ ~fault')]_vars

\* C4 witness: the second release of a pointer whose block was absorbed by
\* the free block before it has been reported
C4_Witness ==
  /\ call[1] = "my_free"
  /\ call[2] \in stale
  /\ err = <<"Double free detected">>
  /\ ~InChain(mem, call[2] - HeaderSize)
  /\ Tiles(mem)


\* C5: my_free(p) of a non-null p outside the arena's span
\* [arena base, arena base + pool_size) is rejected as an invalid pointer:
\* the call returns with the arena (hence the list) and every counter as
\* they were.
C5_OutsidePointerRejected ==
  [][(/\ Calls("my_free")
      /\ memory_pool # NULL
      /\ call'[2] # NULL
      /\ (call'[2] < memory_pool \/ call'[2] >= memory_pool + pool_size))
     => (~fault' /\ mem' = mem /\ stats' = stats)]_vars

\* C6: my_malloc(size) of a size greater than the pool's capacity returns
\* null and changes neither the list nor any counter, for every size of
\* size_t (those within 7 of SIZE_MAX included).
C6_OversizeRequestFails ==
  [][(Calls("my_malloc") /\ memory_pool # NULL /\ call'[3] > pool_size)
     => (ret' = NULL /\ mem' = mem /\ stats' = stats)]_vars

\* C7: when no free block of the list has a size >= the normalized request,
\* my_malloc returns null and leaves the arena (sizes, flags, links) and all
\* counters as they were.
C7_NoFitChangesNothing ==
  [][(/\ Calls("my_malloc")
      /\ memory_pool # NULL
      /\ call'[3] > 0
      /\ ProperList(mem)
      /\ NoFit(mem, AlignUp(call'[3])))
     => (ret' = NULL /\ ~fault' /\ mem' = mem /\ stats' = stats)]_vars

\* C7 witness: a request no larger than the free memory has been refused
\* because no single free block takes it
C7_Witness ==
  /\ call[1] = "my_malloc"
  /\ ret = NULL
  /\ err = <<"No suitable block found">>
  /\ call[3] > 0
  /\ call[3] <= stats.free_memory
  /\ Tiles(mem)
  /\ stats.num_free_blocks = 2

\* C8: a growing my_realloc(p, m) that succeeds (p a live allocated block of
\* size k < m) returns another allocated block of size >= m whose first k
\* bytes are p's bytes before the call; p's block is free and coalesced;
\* num_allocations and num_frees have each grown by 1.
C8_GrowKeepsData ==
  [][(/\ Calls("my_realloc")
      /\ memory_pool # NULL
      /\ LiveAllocated(mem, call'[2])
      /\ call'[3] > SizeOf(mem, call'[2] - HeaderSize)
      /\ ret' # NULL)
     => LET p == call'[2]
            k == SizeOf(mem, p - HeaderSize)
        IN /\ ret' # p
           /\ ~fault'
           /\ LiveAllocated(mem', ret')
           /\ SizeOf(mem', ret' - HeaderSize) >= call'[3]
           /\ \A j \in 0 .. ((k + WordSize - 1) \div WordSize) - 1 :
                Word(mem', ret' + j * WordSize) = Word(mem, p + j * WordSize)
           /\ IsFree(mem', p - HeaderSize)
           /\ NoAdjacentFree(mem')
           /\ stats'.num_allocations = Add(stats.num_allocations, 1)
           /\ stats'.num_frees = Add(stats.num_frees, 1)
    ]_vars

\* C9: when my_realloc(p, m) has to grow (m greater than the size of p's
\* block) and no free block takes the normalized m, it returns null and
\* changes nothing: arena (p's header and payload included) and counters
\* stay as they were.
C9_GrowFailureChangesNothing ==
  [][(/\ Calls("my_realloc")
      /\ memory_pool # NULL
      /\ ProperList(mem)
      /\ LiveAllocated(mem, call'[2])
      /\ call'[3] > SizeOf(mem, call'[2] - HeaderSize)
      /\ NoFit(mem, AlignUp(call'[3])))
     => (ret' = NULL /\ ~fault' /\ mem' = mem /\ stats' = stats)]_vars

\* C9 witness: a growth within the free memory has been refused for want of
\* a single block, and the block is still allocated
C9_Witness ==
  /\ call[1] = "my_realloc"
  /\ ret = NULL
  /\ err = <<"No suitable block found">>
  /\ call[2] \in live
  /\ LiveAllocated(mem, call[2])
  /\ call[3] > SizeOf(mem, call[2] - HeaderSize)
  /\ call[3] <= stats.free_memory
  /\ Tiles(mem)

\* C10: my_realloc(p, new_size) with p a live allocated block of size >=
\* new_size > 0 returns p and changes nothing: no shrink, no split, no copy,
\* arena and counters as they were.
C10_FittingResizeIsNoOp ==
  [][(/\ Calls("my_realloc")
      /\ memory_pool # NULL
      /\ LiveAllocated(mem, call'[2])
      /\ call'[3] > 0
      /\ SizeOf(mem, call'[2] - HeaderSize) >= call'[3])
     => (ret' = call'[2] /\ ~fault' /\ mem' = mem /\ stats' = stats)]_vars

\* C10 witness: a resize to fewer bytes than the block holds has returned
\* the pointer it was given, the block keeping its size
C10_Witness ==
  /\ call[1] = "my_realloc"
  /\ call[2] \in live
  /\ ret = call[2]
  /\ err = <<>>
  /\ call[3] > 0
  /\ LiveAllocated(mem, call[2])
  /\ SizeOf(mem, call[2] - HeaderSize) >= call[3] + WordSize
  /\ Tiles(mem)

\* the allocator is in the uninitialized condition before and after the step,
\* with the arena and every counter as they were
StaysUninitialized ==
  /\ memory_pool' = NULL
  /\ head' = head
  /\ pool_size' = pool_size
  /\ mem' = mem
  /\ stats' = stats
  /\ ~fault'

\* C11: while the allocator is uninitialized (before any successful
\* allocator_init, and after allocator_cleanup), my_malloc(n) returns null
\* for every n and my_free(p) returns for every p; both leave the allocator
\* uninitialized and every counter as it was.
C11_UninitializedMallocFreeNoOp ==
  [][((Calls("my_malloc") \/ Calls("my_free")) /\ memory_pool = NULL)
     => (ret' = NULL /\ StaysUninitialized)]_vars

\* C11 witness: after a teardown (a strategy other than the initial one is
\* still recorded) a request has been refused as made to an uninitialized
\* allocator
C11_Witness ==
  /\ call[1] = "my_malloc"
  /\ call[3] > 0
  /\ memory_pool = NULL
  /\ current_strategy # "FIRST_FIT"
  /\ ret = NULL
  /\ err = <<"Allocator not initialized">>
  /\ stats = ZeroStats

\* C12: while the allocator is uninitialized, my_realloc(p, n) returns null
\* and changes nothing, for every pointer p (null or not) and every size n.
C12_UninitializedReallocNoOp ==
  [][(Calls("my_realloc") /\ memory_pool = NULL)
     => (ret' = NULL /\ StaysUninitialized)]_vars

\* C13: my_realloc(p, n) with n > 0 and p a non-null pointer outside the
\* arena's span returns failure and allocates, copies and releases nothing:
\* the arena (hence the list) and every counter stay as they were.
C13_ReallocOutsidePointerRejected ==
  [][(/\ Calls("my_realloc")
      /\ memory_pool # NULL
      /\ call'[3] > 0
      /\ call'[2] # NULL
      /\ (call'[2] < memory_pool \/ call'[2] >= memory_pool + pool_size))
     => (ret' = NULL /\ ~fault' /\ mem' = mem /\ stats' = stats)]_vars

\* the places (in list order) of the free blocks that take a request of n
\* bytes
Fits(m, n) ==
  {i \in 1 .. Len(Chain(m)) : IsFree(m, Chain(m)[i]) /\ SizeOf(m, Chain(m)[i]) >= n}

\* the step is a request of a size > 0 made under strategy st to a ledger
\* that tiles the arena and holds a free block taking the normalized request
FitStep(st) ==
  /\ Calls("my_malloc")
  /\ memory_pool # NULL
  /\ current_strategy = st
  /\ call'[3] > 0
  /\ Tiles(mem)
  /\ Fits(mem, AlignUp(call'[3])) # {}

\* the step is a request of a size > 0 made under strategy st to a ledger
\* that tiles the arena, and it found no block
NoFitStep(st) ==
  /\ Calls("my_malloc")
  /\ memory_pool # NULL
  /\ current_strategy = st
  /\ call'[3] > 0
  /\ Tiles(mem)
  /\ ret' = NULL

\* C14: under FIRST_FIT my_malloc hands out the first block in list order
\* (the lowest address) among the free blocks whose size is >= the
\* normalized request, for every ledger and request; a released region is
\* reused before a free block behind it.
C14_FirstFitTakesFirst ==
  [][FitStep("FIRST_FIT")
     => LET F == Fits(mem, AlignUp(call'[3]))
            i == CHOOSE k \in F : \A j \in F : k <= j
        IN ~fault' /\ ret' = Chain(mem)[i] + HeaderSize]_vars

\* C14 witness: a released first block has been handed out again although
\* a free block behind it takes the request too
C14_Witness ==
  /\ call[1] = "my_malloc"
  /\ current_strategy = "FIRST_FIT"
  /\ call[3] > 0
  /\ call[3] <= pool_size
  /\ memory_pool # NULL
  /\ Tiles(mem)
  /\ stats.num_frees = 1
  /\ stats.num_allocations = 3
  /\ ret = memory_pool + HeaderSize
  /\ \E i \in Fits(mem, AlignUp(call[3])) : i > 1

\* C15: under BEST_FIT my_malloc hands out, among the free blocks whose size
\* is >= the normalized request, one of minimum size, the first in list
\* order among those of that size; it finds no block only when no free
\* block takes the request.
C15_BestFitTakesSmallest ==
  /\ [][FitStep("BEST_FIT")
        => LET F == Fits(mem, AlignUp(call'[3]))
               sz(k) == SizeOf(mem, Chain(mem)[k])
               i == CHOOSE k \in F :
                      \A j \in F : sz(k) < sz(j) \/ (sz(k) = sz(j) /\ k <= j)
           IN ~fault' /\ ret' = Chain(mem)[i] + HeaderSize]_vars
  /\ [][NoFitStep("BEST_FIT") => Fits(mem, AlignUp(call'[3])) = {}]_vars

\* C15 witness: the request went to a smaller free block behind a larger
\* free block that would have taken it too (the larger one is still free)
C15_Witness ==
  /\ call[1] = "my_malloc"
  /\ current_strategy = "BEST_FIT"
  /\ call[3] > 0
  /\ call[3] <= pool_size
  /\ memory_pool # NULL
  /\ Tiles(mem)
  /\ ret # NULL
  /\ \E i \in Fits(mem, AlignUp(call[3])) :
        /\ Chain(mem)[i] < ret - HeaderSize
        /\ SizeOf(mem, Chain(mem)[i]) > SizeOf(mem, ret - HeaderSize)

\* C16: under WORST_FIT my_malloc hands out, among the free blocks whose
\* size is >= the normalized request, one of maximum size, the first in list
\* order among those of that size; it finds no block only when no free
\* block takes the request.
C16_WorstFitTakesLargest ==
  /\ [][FitStep("WORST_FIT")
        => LET F == Fits(mem, AlignUp(call'[3]))
               sz(k) == SizeOf(mem, Chain(mem)[k])
               i == CHOOSE k \in F :
                      \A j \in F : sz(k) > sz(j) \/ (sz(k) = sz(j) /\ k <= j)
           IN ~fault' /\ ret' = Chain(mem)[i] + HeaderSize]_vars
  /\ [][NoFitStep("WORST_FIT") => Fits(mem, AlignUp(call'[3])) = {}]_vars

\* C17: every pointer a successful my_malloc or my_realloc has returned (and
\* the client still holds) is non-null and 8-byte aligned: its offset from
\* the arena base is a multiple of 8, for every pool size, strategy and
\* sequence of operations.
C17_ReturnedPointersAligned ==
  memory_pool # NULL =>
    \A p \in live \cup (IF call[1] = "my_malloc" /\ ret # NULL THEN {ret} ELSE {}) :
       p # NULL /\ (p - memory_pool) % WordSize = 0

\* C17 witness: in a pool whose size is no multiple of 8 a block behind
\* another allocated block has been handed out, while the list holds a block
\* whose size is no multiple of 8
C17_Witness ==
  /\ call[1] = "my_malloc"
  /\ ret # NULL
  /\ ret \in live
  /\ pool_size % WordSize # 0
  /\ Tiles(mem)
  /\ ret > memory_pool + HeaderSize
  /\ memory_pool + HeaderSize \in live
  /\ \E i \in 1 .. Len(Chain(mem)) : SizeOf(mem, Chain(mem)[i]) % WordSize # 0

\* C18: every my_malloc(s) with s > 0 that succeeds makes used_memory
\* strictly greater: it grows by the size of the block handed out (the
\* normalized request when the block was split, the whole block's size
\* otherwise), free_memory shrinks by the same amount and num_allocations
\* grows by exactly 1.
C18_MallocGrowsUsage ==
  [][(/\ Calls("my_malloc")
      /\ memory_pool # NULL
      /\ call'[3] > 0
      /\ ret' # NULL)
     => LET b == ret' - HeaderSize
            bs == IF stats'.num_blocks # stats.num_blocks
                  THEN AlignUp(call'[3]) ELSE SizeOf(mem, b)
        IN /\ SizeOf(mem', b) = bs
           /\ stats'.used_memory > stats.used_memory
           /\ stats'.used_memory = Add(stats.used_memory, bs)
           /\ stats'.free_memory = Sub(stats.free_memory, bs)
           /\ stats'.num_allocations = Add(stats.num_allocations, 1)
    ]_vars

\* C19: after every successful allocator_init(N, s), whatever an earlier
\* init/teardown cycle left behind: total_memory = N, used_memory = 0,
\* num_blocks = 1, num_free_blocks = 1, num_allocations = 0, num_frees = 0,
\* and the ledger is exactly one free block of size N minus one header width
\* with a null next link.
C19_InitInstallsOneFreeBlock ==
  [][(Calls("allocator_init") /\ ret' = 1)
     => LET N == call'[3]
        IN /\ memory_pool' # NULL
           /\ pool_size' = N
           /\ stats'.total_memory = N
           /\ stats'.used_memory = 0
           /\ stats'.free_memory = N - HeaderSize
           /\ stats'.num_blocks = 1
           /\ stats'.num_free_blocks = 1
           /\ stats'.num_allocations = 0
           /\ stats'.num_frees = 0
           /\ head' = memory_pool'
           /\ SizeOf(mem', head') = N - HeaderSize
           /\ IsFree(mem', head')
           /\ NextOf(mem', head') = NULL
    ]_vars

\* C19 witness: an initialization has succeeded on fresh memory that held
\* non-zero words, with a strategy other than the initial one
C19_Witness ==
  /\ call[1] = "allocator_init"
  /\ ret = 1
  /\ call[3] > HeaderSize
  /\ pool_size = call[3]
  /\ current_strategy # "FIRST_FIT"
  /\ mem[Len(mem)] # 0
  /\ Ledger(mem) = <<<<call[3] - HeaderSize, TRUE>>>>

\* C20: allocator_init returns failure and creates no partial state when the
\* allocator is already initialized (arena, list, strategy and counters stay
\* as they were) or when pool_size is smaller than one header width (the
\* allocator stays uninitialized); a pool_size of exactly one header width
\* is accepted (rejected only when the C library has no memory).
C20_InitMisuseFails ==
  [][Calls("allocator_init")
     => /\ (memory_pool # NULL \/ call'[3] < HeaderSize)
           => /\ ret' = 0
              /\ UNCHANGED <<memory_pool, head, pool_size, current_strategy,
                             stats, mem, fault>>
        /\ (memory_pool = NULL /\ call'[3] = HeaderSize)
           => \/ ret' = 1 /\ memory_pool' # NULL /\ pool_size' = HeaderSize
              \/ ret' = 0 /\ err' = <<"Failed to allocate memory pool">>
                          /\ memory_pool' = NULL
    ]_vars

\* C20 witness: a second initialization, for another pool size, has been
\* refused while a block was allocated
C20_Witness ==
  /\ call[1] = "allocator_init"
  /\ ret = 0
  /\ err = <<"Allocator already initialized">>
  /\ memory_pool # NULL
  /\ call[3] # pool_size
  /\ stats.num_allocations > 0
  /\ live # {}

\* the allocator is in the uninitialized condition after the step: no arena,
\* null head, pool_size 0, all statistics zero
TornDown ==
  /\ memory_pool' = NULL
  /\ head' = NULL
  /\ pool_size' = 0
  /\ mem' = <<>>
  /\ stats' = ZeroStats
  /\ ~fault'

\* what C21 says of allocator_cleanup itself: from any initialized state it
\* leaves the uninitialized condition, and on an uninitialized allocator it
\* changes nothing
CleanupResets ==
  [][Calls("allocator_cleanup")
     => /\ TornDown
        /\ memory_pool = NULL
           => UNCHANGED <<memory_pool, head, pool_size, current_strategy,
                          stats, mem, fault>>]_vars

\* C21 (amended): allocator_cleanup returns the allocator to the
\* uninitialized condition from any initialized state and is idempotent; a
\* subsequent allocator_init with a valid size succeeds whenever malloc() of
\* the C library provides the pool, and otherwise fails ("Failed to allocate
\* memory pool") leaving the allocator uninitialized.
C21_CleanupThenInit ==
  /\ CleanupResets
  /\ [][(Calls("allocator_init") /\ memory_pool = NULL /\ call'[3] >= HeaderSize)
        => \/ ret' = 1 /\ memory_pool' # NULL /\ pool_size' = call'[3]
           \/ /\ ret' = 0
              /\ err' = <<"Failed to allocate memory pool">>
              /\ memory_pool' = NULL
              /\ UNCHANGED <<head, pool_size, stats, mem>>]_vars

\* C21 as stated: allocator_cleanup returns the allocator to the
\* uninitialized condition, is idempotent, and a subsequent allocator_init
\* with a valid size always succeeds.
C21_Original ==
  /\ CleanupResets
  /\ [][(Calls("allocator_init") /\ memory_pool = NULL /\ call'[3] >= HeaderSize)
        => (ret' = 1 /\ memory_pool' # NULL)]_vars

\* C21 witness: an allocator that had been initialized (a strategy other
\* than the initial one is recorded) has been torn down
C21_Witness ==
  /\ call[1] = "allocator_cleanup"
  /\ current_strategy # "FIRST_FIT"
  /\ memory_pool = NULL
  /\ head = NULL
  /\ pool_size = 0
  /\ stats = ZeroStats

\* C22: in every initialized state my_malloc(0) returns null and leaves the
\* statistics and the block list as they were: no block is consumed and
\* num_allocations does not grow.
C22_ZeroRequestRefused ==
  [][(Calls("my_malloc") /\ memory_pool # NULL /\ call'[3] = 0)
     => (ret' = NULL /\ ~fault' /\ mem' = mem /\ stats' = stats)]_vars

\* C22 witness: a request of 0 bytes has been refused although a free block
\* was there to take it, with blocks allocated before
C22_Witness ==
  /\ call = <<"my_malloc", NULL, 0>>
  /\ memory_pool # NULL
  /\ ret = NULL
  /\ Tiles(mem)
  /\ Fits(mem, 0) # {}
  /\ stats.num_allocations > 0

\* C23: my_free(NULL) changes nothing in any state, initialized or not: the
\* block list and every counter (num_frees included) stay as they were and
\* no error is reported.
C23_FreeNullNoOp ==
  [][(Calls("my_free") /\ call'[2] = NULL)
     => /\ err' = <<>>
        /\ ~fault'
        /\ UNCHANGED <<memory_pool, head, pool_size, current_strategy, stats,
                       mem>>]_vars

\* C23 witness: my_free(NULL) has returned without a report on an
\* uninitialized allocator
C23_Witness ==
  /\ call = <<"my_free", NULL, 0>>
  /\ memory_pool = NULL
  /\ err = <<>>
  /\ ~fault

\* C24: in every state my_realloc(NULL, n) returns what my_malloc(n) returns
\* and has its effect on the arena and the counters, and my_realloc(p, 0)
\* with p non-null has the effect of my_free(p) and returns null.
C24_ReallocDelegates ==
  [][Calls("my_realloc")
     => /\ call'[2] = NULL
           => LET r == my_malloc(Cur, call'[3])
              IN /\ ret' = r.ret
                 /\ mem' = r.s.mem
                 /\ stats' = r.s.stats
                 /\ err' = r.s.err
                 /\ fault' = r.s.fault
        /\ (call'[2] # NULL /\ call'[3] = 0)
           => LET s == my_free(Cur, call'[2])
              IN /\ ret' = NULL
                 /\ mem' = s.mem
                 /\ stats' = s.stats
                 /\ err' = s.err
                 /\ fault' = s.fault]_vars

\* C24 witness: a resize to 0 bytes has released an allocated block, which
\* joined the free block next to it
C24_Witness ==
  /\ call[1] = "my_realloc"
  /\ call[2] \in stale
  /\ call[3] = 0
  /\ ret = NULL
  /\ err = <<>>
  /\ stats.num_frees > 0
  /\ Tiles(mem)
  /\ IsFree(mem, call[2] - HeaderSize)
  /\ NoAdjacentFree(mem)

\* the places of the free blocks of the list
FreePlaces(m) == {i \in 1 .. Len(Chain(m)) : IsFree(m, Chain(m)[i])}

\* num_blocks and num_free_blocks count the blocks of the list
CountersMatch(m, st) ==
  /\ st.num_blocks = Len(Chain(m))
  /\ st.num_free_blocks = Cardinality(FreePlaces(m))

\* the block with payload pointer ptr has a free block right before or right
\* behind it in the list
HasFreeNeighbour(m, ptr) ==
  \E i \in 1 .. Len(Chain(m)) :
     /\ Chain(m)[i] = ptr - HeaderSize
     /\ \/ i > 1 /\ IsFree(m, Chain(m)[i - 1])
        \/ i < Len(Chain(m)) /\ IsFree(m, Chain(m)[i + 1])

\* every pointer released since the last allocation lies in the one free
\* block b: the released blocks were neighbours
ReleasedRunIn(m, b) ==
  /\ IsFree(m, b)
  /\ \A p \in stale :
        p - HeaderSize >= b /\ p - HeaderSize < b + HeaderSize + SizeOf(m, b)

\* C25 (amended): N >= 2 adjacent allocated blocks merge while they are
\* released (in any order): every my_free of a block that has a free
\* neighbour makes num_blocks strictly smaller; and once the released blocks
\* were all the allocated blocks, after coalesce_free_blocks
\* num_free_blocks == 1 and num_blocks == 1, the call itself not making
\* num_blocks any greater.
C25_ReleasedRunIsOneBlock ==
  /\ [][(/\ Calls("my_free")
         /\ memory_pool # NULL
         /\ Tiles(mem)
         /\ CountersMatch(mem, stats)
         /\ LiveAllocated(mem, call'[2])
         /\ HasFreeNeighbour(mem, call'[2]))
        => (~fault' /\ stats'.num_blocks < stats.num_blocks)]_vars
  /\ [][(/\ Calls("coalesce_free_blocks")
         /\ memory_pool # NULL
         /\ Tiles(mem)
         /\ CountersMatch(mem, stats)
         /\ Cardinality(stale) >= 2
         /\ FreePlaces(mem) = 1 .. Len(Chain(mem)))
        => /\ ~fault'
           /\ stats'.num_free_blocks = 1
           /\ stats'.num_blocks = 1
           /\ stats'.num_blocks <= stats.num_blocks]_vars

\* C25 as stated: after N adjacent allocated blocks were released (in any
\* order), a call of coalesce_free_blocks leaves num_free_blocks == 1 and
\* num_blocks strictly less than it was before the call.
C25_Original ==
  [][(/\ Calls("coalesce_free_blocks")
      /\ memory_pool # NULL
      /\ Tiles(mem)
      /\ CountersMatch(mem, stats)
      /\ Cardinality(stale) >= 2
      /\ \E i \in 1 .. Len(Chain(mem)) : ReleasedRunIn(mem, Chain(mem)[i]))
     => (stats'.num_free_blocks = 1 /\ stats'.num_blocks < stats.num_blocks)]_vars

\* C25 witness: two neighbours have been released since the last
\* allocation, nothing is allocated any more, and coalesce_free_blocks has
\* been called: one free block spans the arena
C25_Witness ==
  /\ call[1] = "coalesce_free_blocks"
  /\ memory_pool # NULL
  /\ Cardinality(stale) >= 2
  /\ stats.num_frees >= 2
  /\ Tiles(mem)
  /\ stats.num_free_blocks = 1
  /\ stats.num_blocks = 1
  /\ Ledger(mem) = <<<<pool_size - HeaderSize, TRUE>>>>

\* the sum of the sizes of the blocks of the list whose flag is f
SumSizes(m, f) ==
  SumSeq([i \in 1 .. Len(Chain(m)) |->
            IF IsFree(m, Chain(m)[i]) = f THEN SizeOf(m, Chain(m)[i]) ELSE 0])

\* C26: in every reachable state of an initialized allocator used_memory is
\* the sum of the sizes of the blocks marked allocated and free_memory is the
\* sum of the sizes of the blocks marked free.
C26_StatsFromList ==
  memory_pool # NULL =>
    /\ stats.used_memory = SumSizes(mem, FALSE)
    /\ stats.free_memory = SumSizes(mem, TRUE)

\* the size of the largest block of the list marked free (0 with none)
LargestFree(m) ==
  IF FreePlaces(m) = {} THEN 0
  ELSE LET i == CHOOSE k \in FreePlaces(m) :
                  \A j \in FreePlaces(m) :
                     SizeOf(m, Chain(m)[j]) <= SizeOf(m, Chain(m)[k])
       IN SizeOf(m, Chain(m)[i])

\* the step is a get_allocator_stats call that hands the statistics out, on
\* a list whose links end in null
StatsStep ==
  /\ Calls("get_allocator_stats")
  /\ call'[2] # NULL
  /\ ProperList(mem)

\* C27: get_allocator_stats reports fragmentation as
\* (free_memory - L) / free_memory (x 100), L the size of the largest block
\* marked free in the list as the call finds it: the value is 0 exactly when
\* free_memory = 0, L = 0 or free_memory = L, and otherwise its numerator is
\* free_memory - L and its denominator free_memory (over the integers).
C27_FragmentationFormula ==
  [][StatsStep
     => LET L == LargestFree(mem)
            F == stats.free_memory
        IN /\ ~fault'
           /\ mem' = mem
           /\ stats' = [stats EXCEPT !.fragmentation = stats'.fragmentation]
           /\ (stats'.fragmentation = ZeroFrag) <=> (F = 0 \/ L = 0 \/ F = L)
           /\ stats'.fragmentation # ZeroFrag
                 => stats'.fragmentation = <<F - L, F>>]_vars

\* C28: whenever the list holds exactly one free block (all free capacity is
\* one contiguous region) the fragmentation get_allocator_stats reports is 0.
C28_OneFreeBlockNoFragmentation ==
  [][(/\ StatsStep
      /\ memory_pool # NULL
      /\ Tiles(mem)
      /\ Cardinality(FreePlaces(mem)) = 1)
     => stats'.fragmentation = ZeroFrag]_vars

\* a / b <= c / d for fractions <<numerator, denominator>>
FragLeq(x, y) == x[1] * y[2] <= y[1] * x[2]

\* the three runs of the script each had a fresh pool and printed their
\* statistics
ThreeRuns ==
  /\ Len(demo.out) = 3
  /\ \A k \in 1 .. 3 : demo.out[k].total_memory = demo.script.pool

\* C29: the same script (allocate 100, 200, 50 in a fresh pool of 4096,
\* release a non-empty choice of them in any order, allocate 80; or the
\* script of main.c in a pool of 10240) run under each strategy reports
\* fragmentation best-fit <= first-fit <= worst-fit.
C29_StrategyOrdering ==
  ThreeRuns
  => /\ FragLeq(demo.out[2].fragmentation, demo.out[1].fragmentation)
     /\ FragLeq(demo.out[1].fragmentation, demo.out[3].fragmentation)

\* C29 witness: the crafted script released the 3rd and then the 1st block,
\* all three runs are done, and worst-fit reported strictly more
\* fragmentation than first-fit.
C29_Witness ==
  /\ ThreeRuns
  /\ demo.script.pool = TEST_POOL_SIZE
  /\ demo.script.frees = <<3, 1>>
  /\ ~FragLeq(demo.out[3].fragmentation, demo.out[1].fragmentation)

\* the step in which the client calls coalesce_free_blocks
CoalesceStep == call = Idle /\ call'[1] = "coalesce_free_blocks"

\* the state record after the step
After == [mem |-> mem', stats |-> stats', fault |-> fault', err |-> err']

\* C30: an explicit coalesce_free_blocks call does not increase the
\* fragmentation that would be reported (after <= before), changes neither
\* the block list nor any counter in a state reached through allocator_init,
\* my_malloc, my_free and my_realloc, and a second call changes nothing the
\* first did not.
C30_CoalesceNoOp ==
  [][CoalesceStep
     => /\ ~fault'
        /\ calculate_fragmentation(Cur) # <<WILD, WILD>>
        /\ calculate_fragmentation(After) # <<WILD, WILD>>
        /\ FragLeq(calculate_fragmentation(After), calculate_fragmentation(Cur))
        /\ mem' = mem
        /\ stats' = stats
        /\ coalesce_free_blocks(After).mem = mem'
        /\ coalesce_free_blocks(After).stats = stats']_vars

\* the step is a request of a size > 0 to a ledger that tiles the arena, and
\* a block was handed out
HandOutStep ==
  /\ Calls("my_malloc")
  /\ memory_pool # NULL
  /\ call'[3] > 0
  /\ Tiles(mem)
  /\ ret' # NULL

\* C31: my_malloc splits the block it matched exactly when the block's size
\* is >= normalized request + one header width + 1. The split makes the
\* block's size the normalized request, links a new free block of size
\* (old size - request - header width) >= 1 right behind it and before the
\* old successor, and adds one to num_blocks and to num_free_blocks (the
\* hand-over then takes the handed block from num_free_blocks again).
\* Without a split the block is handed over with size and links unchanged.
C31_SplitRule ==
  [][HandOutStep
     => LET b == ret' - HeaderSize
            n == AlignUp(call'[3])
            old == SizeOf(mem, b)
            nb == b + HeaderSize + n
            split == split_block(Cur, b, n)
        IN /\ ~fault'
           /\ InChain(mem, b) /\ IsFree(mem, b)
           /\ ~IsFree(mem', b)
           /\ IF old >= n + HeaderSize + 1
              THEN /\ SizeOf(mem', b) = n
                   /\ NextOf(mem', b) = nb
                   /\ IsFree(mem', nb)
                   /\ SizeOf(mem', nb) = old - n - HeaderSize
                   /\ SizeOf(mem', nb) >= 1
                   /\ NextOf(mem', nb) = NextOf(mem, b)
                   /\ Len(Chain(mem')) = Len(Chain(mem)) + 1
                   /\ split.stats.num_blocks = stats.num_blocks + 1
                   /\ split.stats.num_free_blocks = stats.num_free_blocks + 1
                   /\ stats'.num_blocks = stats.num_blocks + 1
                   /\ stats'.num_free_blocks = stats.num_free_blocks
              ELSE /\ mem' = SetFree(mem, b, FALSE)
                   /\ split = Cur
                   /\ stats'.num_blocks = stats.num_blocks
                   /\ stats'.num_free_blocks = stats.num_free_blocks - 1]_vars

\* C31 witness: a request of 80 has split a released block of 200 that lies
\* between two allocated blocks: the tail of 96 is free and linked before
\* the old successor
C31_Witness ==
  /\ call[1] = "my_malloc"
  /\ call[3] = 80
  /\ ~fault
  /\ memory_pool # NULL
  /\ Tiles(mem)
  /\ ret # NULL
  /\ ret - HeaderSize # memory_pool
  /\ SizeOf(mem, ret - HeaderSize) = 80
  /\ LET nb == NextOf(mem, ret - HeaderSize)
     IN /\ nb = ret + 80
        /\ IsFree(mem, nb)
        /\ SizeOf(mem, nb) = 200 - 80 - HeaderSize
        /\ NextOf(mem, nb) # NULL
        /\ ~IsFree(mem, NextOf(mem, nb))

\* C32: my_malloc normalizes every request s > 0 of the size_t range to the
\* least multiple of 8 that is >= s: the normalized size is a multiple of 8,
\* at least s, less than s + 8 and never 0, and a block handed out has at
\* least s bytes.
C32_NormalizedSize ==
  [][(Calls("my_malloc") /\ memory_pool # NULL /\ call'[3] > 0)
     => LET s == call'[3]
            n == AlignUp(s)
        IN /\ n % WordSize = 0
           /\ n >= s
           /\ n < s + WordSize
           /\ n # 0
           /\ (ret' # NULL /\ Tiles(mem))
                => SizeOf(mem', ret' - HeaderSize) >= s]_vars

\* C33: every public operation runs to completion. In every ledger state
\* the strategy searches end after visiting each block of the list once,
\* and the loop of coalesce_free_blocks ends after at most (number of
\* blocks - 1) iterations, also on the list my_free hands to it (the block
\* just marked free, not yet merged).
C33_OperationsTerminate ==
  /\ [][(call = Idle /\ call' # Idle) => ~fault']_vars
  /\ [](memory_pool # NULL /\ ~fault
        => /\ search_iterations(mem, head, Fuel(mem)) = Len(Chain(mem))
           /\ coalesce_iterations(mem, head, Fuel(mem)) \in
                0 .. Len(Chain(mem)) - 1)
  /\ [][(Calls("my_free") /\ memory_pool # NULL /\ LiveAllocated(mem, call'[2]))
        => LET released == SetFree(mem, call'[2] - HeaderSize, TRUE)
           IN coalesce_iterations(released, head, Fuel(released)) \in
                0 .. Len(Chain(released)) - 1]_vars

Counters(st) ==
  <<st.num_blocks, st.num_free_blocks, st.num_allocations, st.num_frees>>

\* the step is a call that is to change no counter: an allocation that
\* fails, a release of NULL, of a pointer outside the arena or of a pointer
\* already released, or a resize the block already satisfies
NoCountStep ==
  \/ Calls("my_malloc") /\ ret' = NULL
  \/ /\ Calls("my_free")
     /\ \/ call'[2] = NULL
        \/ call'[2] \in stale
        \/ /\ memory_pool # NULL
           /\ \/ call'[2] < memory_pool
              \/ call'[2] >= memory_pool + pool_size
  \/ /\ Calls("my_realloc")
     /\ call'[2] \in live
     /\ call'[3] > 0
     /\ ret' = call'[2]

\* C35: in every state of an initialized allocator num_blocks is the number
\* of blocks of the list, num_free_blocks the number of those marked free
\* and num_allocations - num_frees the number marked allocated; a failed
\* allocation, a null, invalid or double release and a no-op resize change
\* none of these counters.
C35_CountersMatchList ==
  /\ [](memory_pool # NULL
        => /\ CountersMatch(mem, stats)
           /\ stats.num_allocations - stats.num_frees
                = Len(Chain(mem)) - Cardinality(FreePlaces(mem)))
  /\ [][NoCountStep => Counters(stats') = Counters(stats)]_vars

\* C36: once the client has released every pointer it was handed (by
\* allocations and resizes, under any strategy, in any order) the allocator
\* is back to its ledger after initialization: one free block of size
\* pool_size minus one header width, used_memory 0, free_memory pool_size
\* minus one header width, num_blocks 1, num_free_blocks 1, and
\* num_allocations equal to num_frees.
C36_FullRecovery ==
  (memory_pool # NULL /\ live = {})
    => /\ ~fault
       /\ Ledger(mem) = <<<<pool_size - HeaderSize, TRUE>>>>
       /\ NextOf(mem, head) = NULL
       /\ stats.used_memory = 0
       /\ stats.free_memory = pool_size - HeaderSize
       /\ stats.num_blocks = 1
       /\ stats.num_free_blocks = 1
       /\ stats.num_allocations = stats.num_frees

\* the byte ranges [a, a + n) and [b, b + k) have a byte in common
Overlap(a, n, b, k) == n > 0 /\ k > 0 /\ a < b + k /\ b < a + n

\* the pointer the step handed to the client and the size asked for
HandedOut ==
  IF (Calls("my_malloc") \/ Calls("my_realloc")) /\ ret' # NULL
     /\ ret' # call'[2] /\ call'[3] > 0
  THEN {ret'} ELSE {}

\* C37: every outstanding pointer p is the payload pointer of exactly one
\* block of the list, marked allocated, whose header is at p minus one
\* header width; its payload [p, p + size) lies inside the arena and
\* overlaps neither the payload of another outstanding pointer nor a header
\* of the list; the block has at least the size requested for it when it is
\* handed out and keeps its size while the pointer is outstanding.
C37_OutstandingBlocksSafe ==
  /\ [](memory_pool # NULL
        => \A p \in live :
             LET size == SizeOf(mem, p - HeaderSize)
             IN /\ Cardinality({i \in 1 .. Len(Chain(mem)) :
                                  Chain(mem)[i] = p - HeaderSize}) = 1
                /\ ~IsFree(mem, p - HeaderSize)
                /\ p >= memory_pool + HeaderSize
                /\ p + size <= memory_pool + pool_size
                /\ \A q \in live \ {p} :
                     ~Overlap(p, size, q, SizeOf(mem, q - HeaderSize))
                /\ \A i \in 1 .. Len(Chain(mem)) :
                     ~Overlap(p, size, Chain(mem)[i], HeaderSize))
  /\ [][\A p \in HandedOut : SizeOf(mem', p - HeaderSize) >= call'[3]]_vars
  /\ [][memory_pool # NULL /\ memory_pool' # NULL
        => \A p \in live \cap live' :
             SizeOf(mem', p - HeaderSize) = SizeOf(mem, p - HeaderSize)]_vars

====
